---- MODULE Spec2Model ----
(***************************************************************************)
(* petro-ip: initial-production (IP) metrics of wells.                     *)
(*                                                                         *)
(*   wellip.py   calculate_well_ip, wellip_to_dict, the WellIP dataclass   *)
(*   getdata.py  the refresh job: download, calculate, publish to S3       *)
(*   main.py     the serving process: load from S3, GET / and /api/{wa}    *)
(*                                                                         *)
(* Python floats are modelled as exact rationals in lowest terms, or NaN.  *)
(* A float is a record [kind, n, d]: kind "num" with n/d (d > 0), or kind  *)
(* "nan".  Input columns hold whole numbers.                               *)
(***************************************************************************)
EXTENDS Integers, Sequences, FiniteSets, TLC

VARIABLES
    df_all_wells,             \* getdata.py: the downloaded table (rows of zone_prd.csv)
    df_one_well,              \* wellip.py: the frame calculate_well_ip last worked on
    gd_most_recent_prod_period, \* getdata.py: most_recent_prod_period
    gd_all_wells_ip,          \* getdata.py: all_wells_ip
    gd_pc,                    \* getdata.py: position in the script
    cycle,                    \* number of the refresh run (ghost)
    s3,                       \* the two objects of the bucket
    most_recent_prod_period,  \* main.py: module global
    all_wells_ip,             \* main.py: module global
    main_pc,                  \* main.py: position in the module / serving
    request,                  \* the HTTP request last received
    response                  \* its response, once the handler has run

vars == <<df_all_wells, df_one_well, gd_most_recent_prod_period, gd_all_wells_ip,
          gd_pc, cycle, s3, most_recent_prod_period, all_wells_ip, main_pc,
          request, response>>

----------------------------------------------------------------------------
(* Bounds of the model *)

MaxMonths == 3
MaxCycles == 2

----------------------------------------------------------------------------
(* Float arithmetic *)

Abs(a) == IF a < 0 THEN -a ELSE a

RECURSIVE GCD(_, _)
GCD(a, b) == IF b = 0 THEN a ELSE GCD(b, a % b)

NaN == [kind |-> "nan", n |-> 0, d |-> 1]

\* n/d in lowest terms, d > 0
Num(n, d) ==
    LET g == GCD(Abs(n), d)
    IN  [kind |-> "num", n |-> n \div g, d |-> d \div g]

Flt(i) == [kind |-> "num", n |-> i, d |-> 1]

IsNaN(a) == a.kind = "nan"

FAdd(a, b) ==
    IF IsNaN(a) \/ IsNaN(b) THEN NaN
    ELSE LET g == GCD(a.d, b.d)
         IN  Num(a.n * (b.d \div g) + b.n * (a.d \div g), (a.d \div g) * b.d)

FSub(a, b) ==
    IF IsNaN(a) \/ IsNaN(b) THEN NaN
    ELSE FAdd(a, [b EXCEPT !.n = -b.n])

FMul(a, b) ==
    IF IsNaN(a) \/ IsNaN(b) THEN NaN
    ELSE LET g1 == GCD(Abs(a.n), b.d)
             g2 == GCD(Abs(b.n), a.d)
         IN  Num((a.n \div g1) * (b.n \div g2), (a.d \div g2) * (b.d \div g1))

\* a / b for b # 0
FDiv(a, b) ==
    IF IsNaN(a) \/ IsNaN(b) THEN NaN
    ELSE IF b.n < 0 THEN FMul(a, [kind |-> "num", n |-> -b.d, d |-> -b.n])
         ELSE FMul(a, [kind |-> "num", n |-> b.d, d |-> b.n])

\* round(value, 1): to the nearest tenth; round(nan, 1) is nan.  A value
\* exactly halfway goes to the even tenth here; the binary float nearest such
\* a value lies a hair to one side of it, and Python rounds it to that side.
Round1(a) ==
    IF IsNaN(a) THEN NaN
    ELSE LET q  == a.n \div a.d
             r  == a.n % a.d
             t  == (10 * r) \div a.d
             r2 == (10 * r) % a.d
             tenths == 10 * q + t
             up == \/ 2 * r2 > a.d
                   \/ (2 * r2 = a.d /\ tenths % 2 = 1)
         IN  Num(IF up THEN tenths + 1 ELSE tenths, 10)

----------------------------------------------------------------------------
(* wellip.py *)

Streams == {"gas", "oil", "cond", "water"}

days_arr == <<30, 90, 180, 365>>

Milestones == {days_arr[i] : i \in 1..Len(days_arr)}

MStr(m) == CASE m = 30 -> "30" [] m = 90 -> "90" [] m = 180 -> "180" [] m = 365 -> "365"

\* the name of the WellIP field holding the IP of stream s at milestone m
IpField(s, m) == s \o "_ip_" \o MStr(m) \o (IF s = "gas" THEN "_e3m3d" ELSE "_m3d")

IpFields == {IpField(s, m) : s \in Streams, m \in Milestones}

\* the name of the WellIP field holding the cumulative total of stream s
CumField(s) == "cum_prod_" \o s \o (IF s = "gas" THEN "_e6m3" ELSE "_e3m3")

\* the reported cumulative column of stream s in a row
CumCol(row, s) ==
    CASE s = "gas"   -> row.Gas_prod_cum
      [] s = "oil"   -> row.Oil_prod_cum
      [] s = "cond"  -> row.Cond_prod_cum
      [] s = "water" -> row.Water_prod_cum

\* a slip: the month's own figure, no running total
cumsum_monthly(col) == col

\* Series.cumsum(): the running total of a column of whole numbers
RECURSIVE cumsum(_)
cumsum(col) ==
    IF Len(col) = 0 THEN <<>>
    ELSE LET head == cumsum(SubSeq(col, 1, Len(col) - 1))
         IN  Append(head, (IF Len(head) = 0 THEN 0 ELSE head[Len(head)]) + col[Len(col)])

\* lines 54-61: the two derived columns, added to the frame in place
Prepare(df) ==
    LET cum == cumsum([i \in 1..Len(df) |-> df[i].Prod_days])
    IN  [i \in 1..Len(df) |->
            [Wa_num         |-> df[i].Wa_num,
             Prod_period    |-> df[i].Prod_period,
             UWI            |-> df[i].UWI,
             Gas_prod_vol   |-> df[i].Gas_prod_vol,
             Oil_prod_vol   |-> df[i].Oil_prod_vol,
             Water_prod_vol |-> df[i].Water_prod_vol,
             Cond_prod_vol  |-> df[i].Cond_prod_vol,
             Prod_days      |-> df[i].Prod_days,
             Gas_prod_cum   |-> df[i].Gas_prod_cum,
             Oil_prod_cum   |-> df[i].Oil_prod_cum,
             Water_prod_cum |-> df[i].Water_prod_cum,
             Cond_prod_cum  |-> df[i].Cond_prod_cum,
             Prod_days_cum  |-> cum[i],
             Total_prod_vol |-> (df[i].Gas_prod_vol * 1000) + df[i].Oil_prod_vol
                                + df[i].Water_prod_vol + df[i].Cond_prod_vol]]

\* lines 63-73 with the defaults of lines 21-36: the WellIP as constructed.
\* __setattr__ (lines 38-45) turns numpy scalars into built-in ones of the
\* same value.
WellIP(df) ==
    [f \in {"wa", "uwi", "first_prod_month", "last_prod_month", "cum_prod_days"}
           \cup {CumField(s) : s \in Streams} \cup IpFields |->
        CASE f = "wa"               -> df[1].Wa_num
          [] f = "uwi"              -> df[1].UWI
          [] f = "first_prod_month" -> df[1].Prod_period
          [] f = "last_prod_month"  -> df[Len(df)].Prod_period
          [] f = "cum_prod_days"    -> Flt(df[Len(df)].Prod_days_cum)
          [] f \in IpFields         -> NaN
          [] OTHER -> LET s == CHOOSE s \in Streams : CumField(s) = f
                      IN  FDiv(Flt(CumCol(df[Len(df)], s)), Flt(1000))]

\* a slip: the gate without the data-quality test
GateLenOnly(df) == Len(df) >= 2

\* a slip: the gate without the test for two months
GateNoLen(df) ==
    ~ \E i \in 1..Len(df) :
        /\ df[i].Prod_days_cum <= 365
        /\ df[i].Prod_days = 0
        /\ df[i].Total_prod_vol > 0

\* lines 79-86: the eligibility gate
Gate(df) ==
    /\ Len(df) >= 2
    /\ ~ \E i \in 1..Len(df) :
            /\ df[i].Prod_days_cum <= 365
            /\ df[i].Prod_days = 0
            /\ df[i].Total_prod_vol > 0

\* interp1d sorts its knots by x (assume_sorted=False; a stable argsort)
RECURSIVE Insert(_, _)
Insert(sorted, k) ==
    IF Len(sorted) = 0 THEN <<k>>
    ELSE IF sorted[Len(sorted)].x <= k.x THEN Append(sorted, k)
         ELSE Append(Insert(SubSeq(sorted, 1, Len(sorted) - 1), k), sorted[Len(sorted)])

RECURSIVE SortKnots(_)
SortKnots(knots) ==
    IF Len(knots) = 0 THEN <<>>
    ELSE Insert(SortKnots(SubSeq(knots, 1, Len(knots) - 1)), knots[Len(knots)])

\* lines 88-107: the knots (Prod_days_cum, cumulative volume of stream s)
Knots(df, s) ==
    SortKnots([i \in 1..Len(df) |-> [x |-> df[i].Prod_days_cum, y |-> CumCol(df[i], s)]])

\* a slip: the value of the knot before m, no chord (kind="previous")
NpInterpPrevious(knots, m) ==
    LET N == Len(knots)
    IN  IF m > knots[N].x THEN Flt(knots[N].y)
        ELSE IF m < knots[1].x THEN Flt(knots[1].y)
        ELSE LET j == CHOOSE j \in 1..N :
                        /\ knots[j].x <= m
                        /\ \A k \in (j + 1)..N : knots[k].x > m
             IN  Flt(knots[j].y)

\* numpy.interp on sorted knots: the last j with x[j] <= m, then the chord from j
NpInterp(knots, m) ==
    LET N == Len(knots)
    IN  IF m > knots[N].x THEN Flt(knots[N].y)
        ELSE IF m < knots[1].x THEN Flt(knots[1].y)
        ELSE LET j == CHOOSE j \in 1..N :
                        /\ knots[j].x <= m
                        /\ \A k \in (j + 1)..N : knots[k].x > m
             IN  IF j = N \/ knots[j].x = m THEN Flt(knots[j].y)
                 ELSE LET slope == FDiv(Flt(knots[j + 1].y - knots[j].y),
                                        Flt(knots[j + 1].x - knots[j].x))
                      IN  FAdd(FMul(slope, Flt(m - knots[j].x)), Flt(knots[j].y))

\* a slip: numpy.interp alone, which holds the end values outside the knots
Interp1dClamped(knots, m) == NpInterp(knots, m)

\* interp1d(x, y, bounds_error=False)(m): NaN outside [x[0], x[-1]]
Interp1d(knots, m) ==
    IF m < knots[1].x \/ m > knots[Len(knots)].x THEN NaN
    ELSE NpInterp(knots, m)

\* interp1d refuses fewer than two knots with a ValueError (the minimum for
\* kind="linear" in the scipy the repository was written against)
Interp1dRaises(df) == Gate(Prepare(df)) /\ Len(df) < 2

\* lines 48-136
calculate_well_ip(df) ==
    LET prepared == Prepare(df)
        well_ip  == WellIP(prepared)
    IN  IF Gate(prepared)
        THEN [f \in DOMAIN well_ip |->
                IF f \in IpFields
                THEN LET s == CHOOSE s \in Streams : \E m \in Milestones : IpField(s, m) = f
                         m == CHOOSE m \in Milestones : IpField(s, m) = f
                     IN  FDiv(Interp1d(Knots(prepared, s), m), Flt(m))
                ELSE well_ip[f]]
        ELSE well_ip


BBL_M3 == Num(629, 100)

\* a slip: two digits of the factor swapped
MCF_E3M3_Typo == Num(35135, 1000)

MCF_E3M3 == Num(35315, 1000)

\* JSON-able values of the dictionary
JStr(s) == [kind |-> "str", s |-> s]
JInt(i) == [kind |-> "int", n |-> i]
None == [kind |-> "null"]

IsFloat(v) == v.kind \in {"num", "nan"}

Cap(s) == CASE s = "gas" -> "Gas" [] s = "oil" -> "Oil" [] s = "cond" -> "Cond" [] s = "water" -> "Water"

\* the keys of lines 153-156 / 181-184
CumKey(s, units) ==
    "Cum prod " \o s \o
    (IF units = "field" THEN (IF s = "gas" THEN " (Bcf)" ELSE " (Mbbl)")
     ELSE (IF s = "gas" THEN " (E6m3)" ELSE " (E3m3)"))

\* the keys of lines 158-173 / 186-201
IpKey(s, m, units) ==
    Cap(s) \o " IP " \o MStr(m) \o
    (IF units = "field" THEN (IF s = "gas" THEN " (Mcf/d)" ELSE " (bbl/d)")
     ELSE (IF s = "gas" THEN " (E3m3/d)" ELSE " (m3/d)"))

DictKeys(units) ==
    {"WA", "UWI", "First prod month", "Last prod month", "Cum prod days"}
    \cup {CumKey(s, units) : s \in Streams}
    \cup {IpKey(s, m, units) : s \in Streams, m \in Milestones}

\* lines 147-202: the dictionary before rounding
RawDict(well_ip, units) ==
    [k \in DictKeys(units) |->
        CASE k = "WA"               -> JStr(well_ip.wa)
          [] k = "UWI"              -> JStr(well_ip.uwi)
          [] k = "First prod month" -> JInt(well_ip.first_prod_month)
          [] k = "Last prod month"  -> JInt(well_ip.last_prod_month)
          [] k = "Cum prod days"    -> well_ip.cum_prod_days
          [] \E s \in Streams : k = CumKey(s, units) ->
                LET s == CHOOSE s \in Streams : k = CumKey(s, units)
                    v == well_ip[CumField(s)]
                IN  IF units = "field"
                    THEN IF s = "gas" THEN FMul(FMul(v, MCF_E3M3), Num(1, 1000))
                         ELSE FMul(v, BBL_M3)
                    ELSE v
          [] OTHER ->
                LET s == CHOOSE s \in Streams : \E m \in Milestones : k = IpKey(s, m, units)
                    m == CHOOSE m \in Milestones : k = IpKey(s, m, units)
                    v == well_ip[IpField(s, m)]
                IN  IF units = "field"
                    THEN IF s = "gas" THEN FMul(v, MCF_E3M3) ELSE FMul(v, BBL_M3)
                    ELSE v]

\* lines 139-208
wellip_to_dict(well_ip, units) ==
    LET d == RawDict(well_ip, units)
    IN  [k \in DOMAIN d |-> IF IsFloat(d[k]) THEN Round1(d[k]) ELSE d[k]]

----------------------------------------------------------------------------
(* getdata.py *)

WaNums(df) == {df[i].Wa_num : i \in 1..Len(df)}

\* df_all_wells[df_all_wells["Wa_num"] == wa]
RowsOf(df, wa) ==
    LET Match(row) == row.Wa_num = wa
    IN  SelectSeq(df, Match)

\* df_all_wells["Prod_period"].max()
MaxPeriod(df) ==
    CHOOSE p \in {df[i].Prod_period : i \in 1..Len(df)} :
        \A i \in 1..Len(df) : df[i].Prod_period <= p

Absent == [present |-> FALSE, cycle |-> 0, body |-> <<>>]

Object(c, b) == [present |-> TRUE, cycle |-> c, body |-> b]

\* lines 36-44: the watermark and the mapping; the script dies if a well's
\* calculation raises
GdCompute ==
    /\ gd_pc = "downloaded"
    /\ IF \E wa \in WaNums(df_all_wells) : Interp1dRaises(RowsOf(df_all_wells, wa))
       THEN /\ gd_pc' = "raised"
            /\ UNCHANGED <<gd_most_recent_prod_period, gd_all_wells_ip, df_one_well>>
       ELSE /\ gd_pc' = "computed"
            /\ gd_most_recent_prod_period' = MaxPeriod(df_all_wells)
            /\ gd_all_wells_ip' =
                  [wa \in WaNums(df_all_wells) |->
                      calculate_well_ip(RowsOf(df_all_wells, wa))]
            /\ df_one_well' =
                  [wa \in WaNums(df_all_wells) |-> Prepare(RowsOf(df_all_wells, wa))]
    /\ UNCHANGED <<df_all_wells, cycle, s3, most_recent_prod_period, all_wells_ip,
                   main_pc, request, response>>

\* lines 47-49
GdPutPeriod ==
    /\ gd_pc = "computed"
    /\ gd_pc' = "period_put"
    /\ s3' = [s3 EXCEPT !.period = Object(cycle, gd_most_recent_prod_period)]
    /\ UNCHANGED <<df_all_wells, df_one_well, gd_most_recent_prod_period,
                   gd_all_wells_ip, cycle, most_recent_prod_period, all_wells_ip,
                   main_pc, request, response>>

\* line 50
GdPutWells ==
    /\ gd_pc = "period_put"
    /\ gd_pc' = "done"
    /\ s3' = [s3 EXCEPT !.wells = Object(cycle, gd_all_wells_ip)]
    /\ UNCHANGED <<df_all_wells, df_one_well, gd_most_recent_prod_period,
                   gd_all_wells_ip, cycle, most_recent_prod_period, all_wells_ip,
                   main_pc, request, response>>

----------------------------------------------------------------------------
(* main.py *)

NoResponse == [status |-> 0, detail |-> "", body |-> <<>>]

\* lines 14-16: a missing object ends the process (NoSuchKey)
MainLoadPeriod ==
    /\ main_pc = "start"
    /\ IF s3.period.present
       THEN /\ most_recent_prod_period' = s3.period
            /\ main_pc' = "period_loaded"
       ELSE /\ main_pc' = "crashed"
            /\ UNCHANGED most_recent_prod_period
    /\ UNCHANGED <<df_all_wells, df_one_well, gd_most_recent_prod_period,
                   gd_all_wells_ip, gd_pc, cycle, s3, all_wells_ip, request, response>>

\* lines 17-19
MainLoadWells ==
    /\ main_pc = "period_loaded"
    /\ IF s3.wells.present
       THEN /\ all_wells_ip' = s3.wells
            /\ main_pc' = "serving"
       ELSE /\ main_pc' = "crashed"
            /\ UNCHANGED all_wells_ip
    /\ UNCHANGED <<df_all_wells, df_one_well, gd_most_recent_prod_period,
                   gd_all_wells_ip, gd_pc, cycle, s3, most_recent_prod_period, request,
                   response>>

NoRequest == [path |-> "", wa |-> <<>>, query |-> ""]

\* the router hands a request to its handler: GET / or GET /api/{wa}?units={query}
Receive(req) ==
    /\ main_pc = "serving"
    /\ main_pc' = "handling"
    /\ request' = req
    /\ UNCHANGED <<df_all_wells, df_one_well, gd_most_recent_prod_period,
                   gd_all_wells_ip, gd_pc, cycle, s3, most_recent_prod_period,
                   all_wells_ip, response>>

\* lines 24-43: GET /
root ==
    /\ main_pc = "handling"
    /\ request.path = "/"
    /\ response' = [status |-> 200, detail |-> "html",
                    body |-> [period |-> most_recent_prod_period.body]]
    /\ main_pc' = "replied"
    /\ UNCHANGED <<df_all_wells, df_one_well, gd_most_recent_prod_period,
                   gd_all_wells_ip, gd_pc, cycle, s3, most_recent_prod_period,
                   all_wells_ip, request>>

Digits == {"0", "1", "2", "3", "4", "5", "6", "7", "8", "9"}

\* str.isnumeric(): every character is numeric, and there is at least one.
\* "U+00BD" stands for the one character VULGAR FRACTION ONE HALF, which is
\* numeric without being a decimal digit.
NumericChars == Digits \cup {"U+00BD"}

isnumeric(wa) == Len(wa) > 0 /\ \A i \in 1..Len(wa) : wa[i] \in NumericChars

\* lines 47: the units parameter, "metric" when the query leaves it out
UnitsOf(query) == IF query = "omitted" THEN "metric" ELSE query

\* a slip: the rounding applied to the fields of the stored WellIP itself
ip_store_InPlace(store, wa, units) ==
    IF Len(wa) = 5 /\ isnumeric(wa) /\ units \in {"metric", "field"} /\ wa \in DOMAIN store
    THEN [store EXCEPT ![wa] =
            [f \in DOMAIN @ |->
                IF f \in {"wa", "uwi", "first_prod_month", "last_prod_month"}
                THEN @[f] ELSE Round1(@[f])]]
    ELSE store

\* lines 57-63: what the handler leaves in all_wells_ip; the dictionary it
\* fills and edits is its own
ip_store(store, wa, units) == store

\* a slip: the dictionary returned as wellip_to_dict made it
NanKept(d) == d

\* lines 60-62: nan is not valid json
NanToNone(d) == [k \in DOMAIN d |-> IF d[k].kind = "nan" THEN None ELSE d[k]]

\* a slip: the lookup made before the units are validated
ip_response_LookupFirst(store, wa, units) ==
    IF Len(wa) # 5 \/ ~isnumeric(wa)
    THEN [status |-> 400, detail |-> "WA must be 0 padded, 5 character numeric string",
          body |-> <<>>]
    ELSE IF wa \notin DOMAIN store
    THEN [status |-> 404, detail |-> "WA not found", body |-> <<>>]
    ELSE IF units \notin {"metric", "field"}
    THEN [status |-> 400, detail |-> "Units must be 'metric' or 'field'", body |-> <<>>]
    ELSE [status |-> 200, detail |-> "",
          body |-> NanToNone(wellip_to_dict(store[wa], units))]

\* lines 46-65: the response
ip_response(store, wa, units) ==
    IF Len(wa) # 5 \/ ~isnumeric(wa)
    THEN [status |-> 400, detail |-> "WA must be 0 padded, 5 character numeric string",
          body |-> <<>>]
    ELSE IF units \notin {"metric", "field"}
    THEN [status |-> 400, detail |-> "Units must be 'metric' or 'field'", body |-> <<>>]
    ELSE IF wa \notin DOMAIN store
    THEN [status |-> 404, detail |-> "WA not found", body |-> <<>>]
    ELSE [status |-> 200, detail |-> "",
          body |-> NanToNone(wellip_to_dict(store[wa], units))]

\* lines 46-65: GET /api/{wa}?units={query}
ip ==
    /\ main_pc = "handling"
    /\ request.path = "/api/{wa}"
    /\ response' = ip_response(all_wells_ip.body, request.wa, UnitsOf(request.query))
    /\ all_wells_ip' = [all_wells_ip EXCEPT
                           !.body = ip_store(all_wells_ip.body, request.wa,
                                             UnitsOf(request.query))]
    /\ main_pc' = "replied"
    /\ UNCHANGED <<df_all_wells, df_one_well, gd_most_recent_prod_period,
                   gd_all_wells_ip, gd_pc, cycle, s3, most_recent_prod_period, request>>

\* the response goes out and the process waits for the next request
Send ==
    /\ main_pc = "replied"
    /\ main_pc' = "serving"
    /\ request' = NoRequest
    /\ response' = NoResponse
    /\ UNCHANGED <<df_all_wells, df_one_well, gd_most_recent_prod_period,
                   gd_all_wells_ip, gd_pc, cycle, s3, most_recent_prod_period,
                   all_wells_ip>>

----------------------------------------------------------------------------
(* Inputs *)

WA1 == <<"3", "9", "1", "6", "7">>

WA2 == <<"0", "0", "0", "0", "1">>

\* the path parameter of a request that reaches the handler is never empty
RequestWa ==
    {WA1, WA2, <<"2", "0", "0", "0", "2">>, <<"3", "9", "1", "6">>,
     <<"3", "9", "1", "6", "7", "0">>, <<"3", "9", "a", "6", "7">>,
     <<"3", "9", "U+00BD", "6", "7">>}

RequestUnits == {"omitted", "metric", "field", "imperial"}

Requests ==
    {[path |-> "/", wa |-> <<>>, query |-> "omitted"]}
    \cup {[path |-> "/api/{wa}", wa |-> wa, query |-> q] : wa \in RequestWa, q \in RequestUnits}

\* monthly volumes (gas e3m3, oil m3, water m3, cond m3)
NoVol == [gas |-> 0, oil |-> 0, water |-> 0, cond |-> 0]

VolA == [gas |-> 100, oil |-> 0, water |-> 50, cond |-> 5]

VolB == [gas |-> 120, oil |-> 0, water |-> 60, cond |-> 6]

VolOil == [gas |-> 0, oil |-> 7, water |-> 0, cond |-> 0]

\* the kinds of month of the series calculate_well_ip is run on; with 275
\* producing days several months are folded into one record, so that a short
\* series reaches every milestone
MonthKinds ==
    {[days |-> 0, vol |-> NoVol], [days |-> 0, vol |-> VolA], [days |-> 0, vol |-> VolOil],
     [days |-> 30, vol |-> VolA], [days |-> 30, vol |-> VolB], [days |-> 30, vol |-> VolOil],
     [days |-> 31, vol |-> NoVol], [days |-> 31, vol |-> VolA], [days |-> 31, vol |-> VolB],
     [days |-> 275, vol |-> VolA], [days |-> 275, vol |-> VolB],
     [days |-> 275, vol |-> VolOil]}

\* the kinds of month of the tables the serving process is run on
ServeKinds ==
    {[days |-> 30, vol |-> VolA], [days |-> 0, vol |-> VolA], [days |-> 275, vol |-> VolB]}

\* the month a later run of the refresh job finds added to the feed
NewMonth == [days |-> 30, vol |-> VolB]

\* a row of the feed: the cumulative columns are the running totals of the
\* monthly ones, the period follows the previous row's
Row(wa, prev, k) ==
    [Wa_num         |-> wa,
     Prod_period    |-> prev.Prod_period + 1,
     UWI            |-> "203A044J094B1600",
     Gas_prod_vol   |-> k.vol.gas,
     Oil_prod_vol   |-> k.vol.oil,
     Water_prod_vol |-> k.vol.water,
     Cond_prod_vol  |-> k.vol.cond,
     Prod_days      |-> k.days,
     Gas_prod_cum   |-> prev.Gas_prod_cum + k.vol.gas,
     Oil_prod_cum   |-> prev.Oil_prod_cum + k.vol.oil,
     Water_prod_cum |-> prev.Water_prod_cum + k.vol.water,
     Cond_prod_cum  |-> prev.Cond_prod_cum + k.vol.cond]

BeforeFirst ==
    [Prod_period |-> 202000, Gas_prod_cum |-> 0, Oil_prod_cum |-> 0,
     Water_prod_cum |-> 0, Cond_prod_cum |-> 0]

\* the rows of one well, periods ascending
RECURSIVE Rows(_, _)
Rows(wa, months) ==
    IF Len(months) = 0 THEN <<>>
    ELSE LET head == Rows(wa, SubSeq(months, 1, Len(months) - 1))
         IN  Append(head, Row(wa, IF Len(head) = 0 THEN BeforeFirst ELSE head[Len(head)],
                              months[Len(months)]))

SeriesOver(kinds) == UNION {[1..n -> kinds] : n \in 1..MaxMonths}

InputTables == {Rows(WA1, months) : months \in SeriesOver(MonthKinds)}

ServeTables ==
    {Rows(WA1, months) \o Rows(WA2, <<[days |-> 31, vol |-> VolA]>>) :
        months \in SeriesOver(ServeKinds)}

\* lines 30-34 of a later run of the script: the feed holds one more month
\* of the first well
GdDownload ==
    /\ gd_pc = "done"
    /\ cycle < MaxCycles
    /\ cycle' = cycle + 1
    /\ LET old == RowsOf(df_all_wells, WA1)
       IN  df_all_wells' = Append(old, Row(WA1, old[Len(old)], NewMonth))
                           \o RowsOf(df_all_wells, WA2)
    /\ gd_pc' = "downloaded"
    /\ gd_most_recent_prod_period' = 0
    /\ gd_all_wells_ip' = <<>>
    /\ df_one_well' = <<>>
    /\ UNCHANGED <<s3, most_recent_prod_period, all_wells_ip, main_pc, request,
                   response>>

----------------------------------------------------------------------------
(* The calculation of the refresh job, on one well's series *)

InitWith(tables) ==
    /\ df_all_wells \in tables
    /\ df_one_well = <<>>
    /\ gd_most_recent_prod_period = 0
    /\ gd_all_wells_ip = <<>>
    /\ gd_pc = "downloaded"
    /\ cycle = 1
    /\ s3 = [period |-> Absent, wells |-> Absent]
    /\ most_recent_prod_period = Absent
    /\ all_wells_ip = Absent
    /\ main_pc = "start"
    /\ request = NoRequest
    /\ response = NoResponse

Init == InitWith(InputTables)

Next == GdCompute

Spec == Init /\ [][Next]_vars

----------------------------------------------------------------------------
(* The refresh job, run again and again, beside a serving process that     *)
(* starts at any moment                                                    *)

InitServe == InitWith(ServeTables)

NextServe ==
    \/ GdCompute
    \/ GdPutPeriod
    \/ GdPutWells
    \/ GdDownload
    \/ MainLoadPeriod
    \/ MainLoadWells
    \/ \E req \in Requests : Receive(req)
    \/ root
    \/ ip
    \/ Send

SpecServe == InitServe /\ [][NextServe]_vars

----------------------------------------------------------------------------
(* Properties of calculate_well_ip, stated on the rows of the feed *)

\* the refresh job holds its results
Computed == gd_pc \in {"computed", "period_put", "done"}

\* producing days of months 1..i, summed
RECURSIVE DaysUpTo(_, _)
DaysUpTo(rows, i) == IF i = 0 THEN 0 ELSE DaysUpTo(rows, i - 1) + rows[i].Prod_days

\* a month within the first 365 producing days reports volume and no producing days
Defect(rows) ==
    \E i \in 1..Len(rows) :
        /\ DaysUpTo(rows, i) <= 365
        /\ rows[i].Prod_days = 0
        /\ rows[i].Gas_prod_vol * 1000 + rows[i].Oil_prod_vol
           + rows[i].Water_prod_vol + rows[i].Cond_prod_vol > 0

StrictlyIncreasing(rows) ==
    \A i \in 1..(Len(rows) - 1) : DaysUpTo(rows, i) < DaysUpTo(rows, i + 1)

AllIpNaN(w) == \A s \in Streams, m \in Milestones : IsNaN(w[IpField(s, m)])

\* the identity and cumulative fields come from the first and last rows
Populated(w, rows) ==
    /\ w.wa = rows[1].Wa_num
    /\ w.uwi = rows[1].UWI
    /\ w.first_prod_month = rows[1].Prod_period
    /\ w.last_prod_month = rows[Len(rows)].Prod_period
    /\ w.cum_prod_days = Num(DaysUpTo(rows, Len(rows)), 1)
    /\ \A s \in Streams : w[CumField(s)] = Num(CumCol(rows[Len(rows)], s), 1000)

Scenario ==
    Rows(WA1, <<[days |-> 30, vol |-> VolA], [days |-> 30, vol |-> VolB]>>)

\* C1: a series of two months or more that passes the gate and whose
\* cumulative producing days strictly increase gets, at every milestone m
\* within its knots and for every stream, the value of the chord between the
\* two knots around m, divided by m; on a knot, that knot's cumulative volume
\* divided by m.  Two months of 30 days with cumulative gas 100 then 220 give
\* gas IP30 = 100/30 and no IP90, IP180, IP365.
C1_InterpolatedRate ==
    Computed =>
        /\ \A wa \in DOMAIN gd_all_wells_ip :
            LET rows == RowsOf(df_all_wells, wa)
                w    == gd_all_wells_ip[wa]
            IN  (Len(rows) >= 2 /\ ~Defect(rows) /\ StrictlyIncreasing(rows)) =>
                    \A m \in Milestones, s \in Streams, i \in 1..(Len(rows) - 1) :
                        LET x0 == DaysUpTo(rows, i)
                            x1 == DaysUpTo(rows, i + 1)
                            y0 == CumCol(rows[i], s)
                            y1 == CumCol(rows[i + 1], s)
                        IN  (x0 <= m /\ m <= x1) =>
                               /\ w[IpField(s, m)] =
                                     Num(y0 * (x1 - x0) + (y1 - y0) * (m - x0), (x1 - x0) * m)
                               /\ (m = x0 => w[IpField(s, m)] = Num(y0, m))
                               /\ (m = x1 => w[IpField(s, m)] = Num(y1, m))
        /\ df_all_wells = Scenario =>
              /\ gd_all_wells_ip[WA1].gas_ip_30_e3m3d = Num(100, 30)
              /\ \A s \in Streams, m \in Milestones \ {30} :
                    IsNaN(gd_all_wells_ip[WA1][IpField(s, m)])

\* 30 on the first knot, 90 between the knots 30 and 305
C1_Witness ==
    /\ Computed
    /\ df_all_wells = Rows(WA1, <<[days |-> 30, vol |-> VolA], [days |-> 275, vol |-> VolB]>>)
    /\ gd_all_wells_ip[WA1].gas_ip_30_e3m3d = Num(100, 30)
    /\ gd_all_wells_ip[WA1].gas_ip_90_e3m3d = Num(100 * 275 + 120 * 60, 275 * 90)
    /\ IsNaN(gd_all_wells_ip[WA1].gas_ip_365_e3m3d)

\* C2: a series of any length with a month of no producing days and some
\* volume within the first 365 cumulative producing days gets no IP value at
\* all; no error is raised, and the identity and cumulative fields are filled
\* from the first and last rows.
C2_GateFailure ==
    \A wa \in WaNums(df_all_wells) :
        LET rows == RowsOf(df_all_wells, wa)
        IN  Defect(rows) =>
               /\ gd_pc # "raised"
               /\ Computed =>
                     /\ wa \in DOMAIN gd_all_wells_ip
                     /\ AllIpNaN(gd_all_wells_ip[wa])
                     /\ Populated(gd_all_wells_ip[wa], rows)

\* three months, the second with volume and no producing days; the knots
\* reach from 30 to 305, so that without the gate there would be rates
C2_Witness ==
    /\ Computed
    /\ df_all_wells = Rows(WA1, <<[days |-> 30, vol |-> VolA], [days |-> 0, vol |-> VolA],
                                  [days |-> 275, vol |-> VolA]>>)
    /\ AllIpNaN(gd_all_wells_ip[WA1])
    /\ gd_all_wells_ip[WA1].cum_prod_gas_e6m3 = Num(300, 1000)

\* C3: no extrapolation: a milestone beyond the final cumulative producing
\* days, or before the first month's, has no IP value for any stream.
C3_NoExtrapolation ==
    Computed =>
        \A wa \in DOMAIN gd_all_wells_ip :
            LET rows == RowsOf(df_all_wells, wa)
            IN  \A m \in Milestones :
                    (m > DaysUpTo(rows, Len(rows)) \/ m < DaysUpTo(rows, 1)) =>
                        \A s \in Streams : IsNaN(gd_all_wells_ip[wa][IpField(s, m)])

\* a first month of 31 days: no IP30, an IP90 and IP180, no IP365
C3_Witness ==
    /\ Computed
    /\ df_all_wells = Rows(WA1, <<[days |-> 31, vol |-> VolA], [days |-> 275, vol |-> VolB]>>)
    /\ IsNaN(gd_all_wells_ip[WA1].gas_ip_30_e3m3d)
    /\ ~IsNaN(gd_all_wells_ip[WA1].gas_ip_90_e3m3d)
    /\ ~IsNaN(gd_all_wells_ip[WA1].gas_ip_180_e3m3d)
    /\ IsNaN(gd_all_wells_ip[WA1].gas_ip_365_e3m3d)

\* C4: a well with one reporting month raises no error and gets no IP value;
\* first period = last period = the month's period, cumulative producing days
\* = the month's producing days, each cumulative total = the month's reported
\* cumulative value over 1000.
C4_SingleMonth ==
    \A wa \in WaNums(df_all_wells) :
        LET rows == RowsOf(df_all_wells, wa)
        IN  Len(rows) = 1 =>
               /\ gd_pc # "raised"
               /\ Computed =>
                     LET w == gd_all_wells_ip[wa]
                     IN  /\ AllIpNaN(w)
                         /\ w.first_prod_month = rows[1].Prod_period
                         /\ w.last_prod_month = rows[1].Prod_period
                         /\ w.cum_prod_days = Num(rows[1].Prod_days, 1)
                         /\ \A s \in Streams : w[CumField(s)] = Num(CumCol(rows[1], s), 1000)

\* one month of 30 producing days: day 30 is on the only knot
C4_Witness ==
    /\ Computed
    /\ df_all_wells = Rows(WA1, <<[days |-> 30, vol |-> VolA]>>)
    /\ AllIpNaN(gd_all_wells_ip[WA1])
    /\ gd_all_wells_ip[WA1].cum_prod_gas_e6m3 = Num(1, 10)
    /\ gd_all_wells_ip[WA1].cum_prod_days = Num(30, 1)

\* C8: the prepared series has the length and the order of the input; its
\* cumulative producing days at month i are the producing days of months
\* 1..i summed, never reset; so they never decrease when no month's producing
\* days are negative.
C8_RunningTotal ==
    Computed =>
        \A wa \in DOMAIN df_one_well :
            LET rows     == RowsOf(df_all_wells, wa)
                prepared == df_one_well[wa]
            IN  /\ Len(prepared) = Len(rows)
                /\ \A i \in 1..Len(rows) :
                      /\ [c \in DOMAIN rows[i] |-> prepared[i][c]] = rows[i]
                      /\ prepared[i].Prod_days_cum = DaysUpTo(rows, i)
                /\ (\A i \in 1..Len(rows) : rows[i].Prod_days >= 0) =>
                      \A i \in 1..(Len(rows) - 1) :
                          prepared[i].Prod_days_cum <= prepared[i + 1].Prod_days_cum

\* three months, the second without producing days
C8_Witness ==
    /\ Computed
    /\ WA1 \in DOMAIN df_one_well
    /\ Len(df_one_well[WA1]) = 3
    /\ df_one_well[WA1][1].Prod_days_cum = 30
    /\ df_one_well[WA1][2].Prod_days_cum = 30
    /\ df_one_well[WA1][3].Prod_days_cum = 305

----------------------------------------------------------------------------
(* Properties of wellip_to_dict *)

\* the documented factor of a cumulative field, and of an IP field
CumFactor(s) ==
    IF s = "gas" THEN FMul(Num(35315, 1000), Num(1, 1000)) ELSE Num(629, 100)

IpFactor(s) == IF s = "gas" THEN Num(35315, 1000) ELSE Num(629, 100)

\* a metric value converted field by field as documented, then rounded
CumRoundTrip(v, s) ==
    IF s = "gas" THEN Round1(FMul(FMul(v, Num(35315, 1000)), Num(1, 1000)))
    ELSE Round1(FMul(v, Num(629, 100)))

IpRoundTrip(v, s) == Round1(FMul(v, IpFactor(s)))

\* |a - b| <= 0.05 * factor + 0.1, or both NaN
Within(a, b, factor) ==
    IF IsNaN(a) \/ IsNaN(b) THEN IsNaN(a) /\ IsNaN(b)
    ELSE LET diff  == FSub(a, b)
             bound == FAdd(FMul(Num(1, 20), factor), Num(1, 10))
         IN  Abs(diff.n) * bound.d <= bound.n * diff.d

\* C7 as stated: converting the rounded metric values by the documented
\* factors and rounding again reproduces the field values.
C7_RoundTripAsStated ==
    Computed =>
        \A wa \in DOMAIN gd_all_wells_ip :
            LET metric == wellip_to_dict(gd_all_wells_ip[wa], "metric")
                field  == wellip_to_dict(gd_all_wells_ip[wa], "field")
            IN  \A s \in Streams :
                    /\ CumRoundTrip(metric[CumKey(s, "metric")], s) = field[CumKey(s, "field")]
                    /\ \A m \in Milestones :
                          IpRoundTrip(metric[IpKey(s, m, "metric")], s)
                              = field[IpKey(s, m, "field")]

\* C7 amended: the round trip reproduces a field value exactly when the
\* stored value has at most one decimal (the metric rounding lost nothing),
\* and to within 0.05 x factor + 0.1 otherwise: the field values are
\* converted from the stored values, not from the rounded metric ones.
C7_RoundTripAmended ==
    Computed =>
        \A wa \in DOMAIN gd_all_wells_ip :
            LET w      == gd_all_wells_ip[wa]
                metric == wellip_to_dict(w, "metric")
                field  == wellip_to_dict(w, "field")
            IN  \A s \in Streams :
                    /\ LET mv == metric[CumKey(s, "metric")]
                           fv == field[CumKey(s, "field")]
                       IN  /\ mv = w[CumField(s)] => CumRoundTrip(mv, s) = fv
                           /\ Within(CumRoundTrip(mv, s), fv, CumFactor(s))
                    /\ \A m \in Milestones :
                          LET mv == metric[IpKey(s, m, "metric")]
                              fv == field[IpKey(s, m, "field")]
                          IN  /\ mv = w[IpField(s, m)] => IpRoundTrip(mv, s) = fv
                              /\ Within(IpRoundTrip(mv, s), fv, IpFactor(s))

\* gas IP30 is 4.0 and comes back as 141.3 Mcf/d; the cumulative condensate
\* 0.011 E3m3 is 0.0 in metric and 0.1 Mbbl in field
C7_Witness ==
    /\ Computed
    /\ df_all_wells = Rows(WA1, <<[days |-> 30, vol |-> VolB], [days |-> 30, vol |-> VolA]>>)
    /\ LET w      == gd_all_wells_ip[WA1]
           metric == wellip_to_dict(w, "metric")
           field  == wellip_to_dict(w, "field")
       IN  /\ metric["Gas IP 30 (E3m3/d)"] = Num(4, 1)
           /\ field["Gas IP 30 (Mcf/d)"] = Num(1413, 10)
           /\ metric["Cum prod cond (E3m3)"] = Num(0, 1)
           /\ field["Cum prod cond (Mbbl)"] = Num(1, 10)

----------------------------------------------------------------------------
(* Properties of the serving process *)

Running == main_pc \in {"serving", "handling", "replied"}

\* a request to /api/{wa} has been answered and the answer not yet sent
Answered == main_pc = "replied" /\ request.path = "/api/{wa}"

AskedUnits == IF request.query = "omitted" THEN "metric" ELSE request.query

\* C5: 400 if wa is not exactly 5 numeric characters or units is neither
\* metric nor field (metric when left out); otherwise 404 if wa is no key of
\* the mapping; otherwise 200.  A validation failure goes before a lookup
\* miss.
C5_Status ==
    Answered =>
        LET wa       == request.wa
            badWa    == ~(Len(wa) = 5 /\ \A i \in 1..Len(wa) : wa[i] \in NumericChars)
            badUnits == AskedUnits \notin {"metric", "field"}
        IN  response.status =
               IF badWa \/ badUnits THEN 400
               ELSE IF wa \notin DOMAIN all_wells_ip.body THEN 404
               ELSE 200

\* a well-formed wa that is no key, asked for in units that do not exist
C5_Witness ==
    /\ Answered
    /\ request.wa = <<"2", "0", "0", "0", "2">>
    /\ request.wa \notin DOMAIN all_wells_ip.body
    /\ request.query = "imperial"
    /\ response.status = 400

\* the sixteen IP keys of a response, as documented
IpKeysOf(units) ==
    IF units = "field"
    THEN {<<"gas", 30, "Gas IP 30 (Mcf/d)">>, <<"oil", 30, "Oil IP 30 (bbl/d)">>,
          <<"cond", 30, "Cond IP 30 (bbl/d)">>, <<"water", 30, "Water IP 30 (bbl/d)">>,
          <<"gas", 90, "Gas IP 90 (Mcf/d)">>, <<"oil", 90, "Oil IP 90 (bbl/d)">>,
          <<"cond", 90, "Cond IP 90 (bbl/d)">>, <<"water", 90, "Water IP 90 (bbl/d)">>,
          <<"gas", 180, "Gas IP 180 (Mcf/d)">>, <<"oil", 180, "Oil IP 180 (bbl/d)">>,
          <<"cond", 180, "Cond IP 180 (bbl/d)">>, <<"water", 180, "Water IP 180 (bbl/d)">>,
          <<"gas", 365, "Gas IP 365 (Mcf/d)">>, <<"oil", 365, "Oil IP 365 (bbl/d)">>,
          <<"cond", 365, "Cond IP 365 (bbl/d)">>, <<"water", 365, "Water IP 365 (bbl/d)">>}
    ELSE {<<"gas", 30, "Gas IP 30 (E3m3/d)">>, <<"oil", 30, "Oil IP 30 (m3/d)">>,
          <<"cond", 30, "Cond IP 30 (m3/d)">>, <<"water", 30, "Water IP 30 (m3/d)">>,
          <<"gas", 90, "Gas IP 90 (E3m3/d)">>, <<"oil", 90, "Oil IP 90 (m3/d)">>,
          <<"cond", 90, "Cond IP 90 (m3/d)">>, <<"water", 90, "Water IP 90 (m3/d)">>,
          <<"gas", 180, "Gas IP 180 (E3m3/d)">>, <<"oil", 180, "Oil IP 180 (m3/d)">>,
          <<"cond", 180, "Cond IP 180 (m3/d)">>, <<"water", 180, "Water IP 180 (m3/d)">>,
          <<"gas", 365, "Gas IP 365 (E3m3/d)">>, <<"oil", 365, "Oil IP 365 (m3/d)">>,
          <<"cond", 365, "Cond IP 365 (m3/d)">>, <<"water", 365, "Water IP 365 (m3/d)">>}

\* C6: a 200 response, metric or field, holds all sixteen IP keys; a key's
\* value is null exactly when the stored IP value is NaN; it is never NaN,
\* and a value that is not available is never 0.
C6_NullForNaN ==
    (Answered /\ response.status = 200) =>
        /\ Cardinality(IpKeysOf(AskedUnits)) = 16
        /\ \A e \in IpKeysOf(AskedUnits) :
              LET stored == all_wells_ip.body[request.wa][IpField(e[1], e[2])]
              IN  /\ e[3] \in DOMAIN response.body
                  /\ response.body[e[3]].kind \in {"null", "num"}
                  /\ (response.body[e[3]].kind = "null") <=> (stored.kind = "nan")

\* knots 30 and 305 asked for in field units: an IP30, no IP365
C6_Witness ==
    /\ Answered
    /\ response.status = 200
    /\ request.query = "field"
    /\ response.body["Gas IP 30 (Mcf/d)"].kind = "num"
    /\ response.body["Oil IP 30 (bbl/d)"] = Num(0, 1)
    /\ response.body["Gas IP 365 (Mcf/d)"].kind = "null"
    /\ IsNaN(all_wells_ip.body[request.wa].gas_ip_365_e3m3d)

\* C9: no request, whatever its outcome, changes the mapping or the
\* watermark of the serving process, and the response to a request is the
\* one the mapping as it is after the request gives: the same request asked
\* again gets the same response.
C9_PublishedUnchanged ==
    [][Running =>
          /\ all_wells_ip' = all_wells_ip
          /\ most_recent_prod_period' = most_recent_prod_period
          /\ (main_pc = "handling" /\ main_pc' = "replied" /\ request.path = "/api/{wa}") =>
                response' = ip_response(all_wells_ip'.body, request.wa, AskedUnits)]_vars

\* after a 200 in field units with a null in it, the stored WellIP still
\* holds 10/3 and NaN, and the refresh job has published again meanwhile
C9_Witness ==
    /\ Answered
    /\ response.status = 200
    /\ request.query = "field"
    /\ response.body["Gas IP 30 (Mcf/d)"] = Num(1177, 10)
    /\ response.body["Gas IP 90 (Mcf/d)"].kind = "null"
    /\ all_wells_ip.body[request.wa].gas_ip_30_e3m3d = Num(10, 3)
    /\ IsNaN(all_wells_ip.body[request.wa].gas_ip_90_e3m3d)
    /\ s3.wells.cycle > all_wells_ip.cycle

\* the last reporting period of the wells of a mapping
LastPeriodOf(wells) ==
    CHOOSE p \in {wells[wa].last_prod_month : wa \in DOMAIN wells} :
        \A wa \in DOMAIN wells : wells[wa].last_prod_month <= p

\* C10: the watermark and the mapping of a serving process come from the
\* same refresh run, and the watermark is the most recent reporting period
\* of the data behind the mapping.
C10_SameCycle ==
    Running =>
        /\ most_recent_prod_period.cycle = all_wells_ip.cycle
        /\ most_recent_prod_period.body = LastPeriodOf(all_wells_ip.body)

====
